---- MODULE Spec2Model ----
(***************************************************************************)
(* Model of src/grnvs.rs: the Rust bindings of GRNVS's libraw.             *)
(*                                                                         *)
(* The program state is the set of Socket values a caller holds, the       *)
(* descriptors the external library has open, and a record `last` of the   *)
(* most recent wrapper operation: its inputs, the external calls it made,  *)
(* the raw result the library gave and the value the wrapper returned.     *)
(* Buffers are modelled by their length: the wrappers pass pointer and     *)
(* length through and never look at the bytes.                             *)
(***************************************************************************)
EXTENDS Integers, Sequences, FiniteSets

\* ------------------------------------------------------------- bounds
MaxHandles == 2
MaxFd == 1
MaxBufLen == 2
MaxErr == 1
MaxNameLen == 2
HexSlack == 1

\* ---------------------------------------------------- program constants
\* enum Layer, #[repr(i32)]
SOCK_DGRAM == 2
SOCK_RAW == 3
\* the limit both hexdump wrappers test data.len() against
MaxHexdumpLen == 17760
\* usize / isize width of the target (x86_64)
UsizeBits == 64

\* a usize value is held as a sequence of 16-bit limbs, most significant first
LimbBase == 2 ^ 16
NumLimbs == UsizeBits \div 16

\* ------------------------------------------------------------- inputs
Handles == 1..MaxHandles
Fds == 0..MaxFd
NegResults == (0 - MaxErr)..(0 - 1)
BufLens == 0..MaxBufLen
Layers == {SOCK_DGRAM, SOCK_RAW}
\* bytes of an interface name: 0 is the NUL byte, 1 any other byte
Chars == {0, 1}
Names == UNION {[1..n -> Chars] : n \in 0..MaxNameLen}
HexLens == (0..HexSlack) \cup ((MaxHexdumpLen - HexSlack)..(MaxHexdumpLen + HexSlack))

VARIABLES prog, sock, openFds, closeCalls, last
vars == <<prog, sock, openFds, closeCalls, last>>

\* ---------------------------------------------------- integer casts
\* n shifted right by k limbs
RECURSIVE ShiftLimbs(_, _)
ShiftLimbs(n, k) == IF k = 0 THEN n ELSE ShiftLimbs(n \div LimbBase, k - 1)

\* limbs (most significant first) of a natural number below 2^UsizeBits
NatLimbs(n) == [i \in 1..NumLimbs |-> ShiftLimbs(n, NumLimbs - i) % LimbBase]

\* `x as usize` for an isize x: two's complement, i.e. x mod 2^UsizeBits.
\* For x < 0 this is the bitwise complement of (-x - 1).
AsUsize(x) ==
    IF x >= 0 THEN NatLimbs(x)
    ELSE [i \in 1..NumLimbs |-> (LimbBase - 1) - NatLimbs((0 - x) - 1)[i]]

\* ------------------------------------------------ std::ffi::CString
\* variant: the name is handed on without the check for a 0 byte
CStringNewUnchecked(name) == [ok |-> TRUE]

\* CString::new(ifname): Err(NulError) when the bytes hold a 0 byte
CStringNew(name) ==
    IF \E i \in 1..Len(name) : name[i] = 0
    THEN [ok |-> FALSE]
    ELSE [ok |-> TRUE]

\* ------------------------------------------- the external library
\* what the extern "C" functions may answer (negative: failure)
GrnvsOpenResults == NegResults \cup (Fds \ openFds)
GrnvsReadResults(fd, maxlen) ==
    IF fd \in openFds THEN NegResults \cup (0..maxlen) ELSE NegResults
GrnvsWriteResults(fd, maxlen) ==
    IF fd \in openFds THEN NegResults \cup (0..maxlen) ELSE NegResults
\* grnvs_get_hwaddr answers a pointer: 0 is the null pointer, 1 any other
GrnvsGetHwaddrResults(fd) == {0, 1}

\* ------------------------------------------------------------ state
\* sock[h]: the Socket value of slot h; st is "none" before the open that
\* creates it, "live" while it exists, "released" once it has been dropped
\* (its field is gone then, and via tells which path dropped it)
NoSocket == [st |-> "none", fd |-> 0, via |-> "-"]
NoRet == [ok |-> TRUE, val |-> <<>>]
Op(op, h, name, len, tmo, calls, raw, ret) ==
    [op |-> op, h |-> h, name |-> name, len |-> len, tmo |-> tmo,
     calls |-> calls, raw |-> raw, ret |-> ret]

Init ==
    /\ prog = "running"
    /\ sock = [h \in Handles |-> NoSocket]
    /\ openFds = {}
    /\ closeCalls = [h \in Handles |-> 0]
    /\ last = Op("init", 0, <<>>, 0, FALSE, <<>>, 0, NoRet)

Live(h) == sock[h].st = "live"

\* variant: the value goes away without grnvs_close being called
DropWithoutClose(h, via) ==
    /\ sock' = [sock EXCEPT ![h] = [st |-> "released", fd |-> 0, via |-> via]]
    /\ UNCHANGED <<closeCalls, openFds>>

\* impl Drop for Socket: grnvs_close(self.0); the value is gone afterwards
Drop(h, via) ==
    /\ sock' = [sock EXCEPT ![h] = [st |-> "released", fd |-> 0, via |-> via]]
    /\ closeCalls' = [closeCalls EXCEPT ![h] = @ + 1]
    /\ openFds' = openFds \ {sock[h].fd}

\* the lowest handle slot not yet used: the Socket value an open creates
FreeSlot(h) == sock[h].st = "none" /\ \A g \in Handles : g < h => sock[g].st # "none"

\* Socket::open(ifname, layer)
SocketOpen(name, layer) ==
    /\ prog = "running"
    /\ IF ~CStringNew(name).ok
       THEN \* .unwrap() on Err(NulError) panics
            /\ prog' = "panicked"
            /\ last' = Op("open", 0, name, Len(name), FALSE, <<>>, 0, NoRet)
            /\ UNCHANGED <<sock, openFds, closeCalls>>
       ELSE \E h \in Handles, r \in GrnvsOpenResults :
            /\ FreeSlot(h)
            /\ sock' = [sock EXCEPT ![h] = [st |-> "live", fd |-> r, via |-> "-"]]
            /\ openFds' = IF r >= 0 THEN openFds \cup {r} ELSE openFds
            /\ last' = Op("open", h, name, Len(name), FALSE,
                          << <<"grnvs_open", name, layer>> >>, r, [ok |-> TRUE, val |-> <<r>>])
            /\ UNCHANGED <<prog, closeCalls>>

\* Socket::read(&mut self, destination, timeout); tmo: a timeout is supplied
SocketRead(h, len, tmo) ==
    /\ prog = "running"
    /\ Live(h)
    /\ \E r \in GrnvsReadResults(sock[h].fd, len) :
         last' = Op("read", h, <<>>, len, tmo,
                    << <<"grnvs_read", sock[h].fd, len, IF tmo THEN "ptr" ELSE "null">> >>,
                    r, [ok |-> TRUE, val |-> AsUsize(r)])
    /\ UNCHANGED <<prog, sock, openFds, closeCalls>>

\* variant: the result is cast without the test for a negative value
WriteResultUnchecked(result) == [ok |-> TRUE, val |-> AsUsize(result)]

\* what Socket::write makes of grnvs_write's result
WriteResult(result) ==
    IF result < 0
    THEN [ok |-> FALSE, val |-> <<>>]
    ELSE [ok |-> TRUE, val |-> AsUsize(result)]

\* Socket::write(&mut self, source)
SocketWrite(h, len) ==
    /\ prog = "running"
    /\ Live(h)
    /\ \E r \in GrnvsWriteResults(sock[h].fd, len) :
         last' = Op("write", h, <<>>, len, FALSE,
                    << <<"grnvs_write", sock[h].fd, len>> >>, r, WriteResult(r))
    /\ UNCHANGED <<prog, sock, openFds, closeCalls>>

DropOp(h) == Op("drop", h, <<>>, 0, FALSE, << <<"grnvs_close", sock[h].fd>> >>, 0, NoRet)

\* variant: close calls grnvs_close itself, and Drop calls it again
SocketCloseTwice(h) ==
    /\ prog = "running"
    /\ Live(h)
    /\ sock' = [sock EXCEPT ![h] = [st |-> "released", fd |-> 0, via |-> "close"]]
    /\ closeCalls' = [closeCalls EXCEPT ![h] = @ + 2]
    /\ openFds' = openFds \ {sock[h].fd}
    /\ last' = Op("close", h, <<>>, 0, FALSE,
                  << <<"grnvs_close", sock[h].fd>>, <<"grnvs_close", sock[h].fd>> >>, 0, NoRet)
    /\ UNCHANGED prog

\* variant: close borrows the Socket, calls grnvs_close and leaves the value usable
SocketCloseBorrowed(h) ==
    /\ prog = "running"
    /\ Live(h)
    /\ closeCalls[h] = 0
    /\ closeCalls' = [closeCalls EXCEPT ![h] = @ + 1]
    /\ openFds' = openFds \ {sock[h].fd}
    /\ last' = Op("close", h, <<>>, 0, FALSE, << <<"grnvs_close", sock[h].fd>> >>, 0, NoRet)
    /\ UNCHANGED <<prog, sock>>

\* Socket::close(self): the body is empty; self is dropped when it returns
SocketClose(h) ==
    /\ prog = "running"
    /\ Live(h)
    /\ Drop(h, "close")
    /\ last' = Op("close", h, <<>>, 0, FALSE, << <<"grnvs_close", sock[h].fd>> >>, 0, NoRet)
    /\ UNCHANGED prog

\* Socket::get_hwaddr(&self): .as_ref().unwrap() panics on a null pointer
GetHwaddr(h) ==
    /\ prog = "running"
    /\ Live(h)
    /\ \E p \in GrnvsGetHwaddrResults(sock[h].fd) :
         /\ prog' = IF p = 0 THEN "panicked" ELSE prog
         /\ last' = Op("get_hwaddr", h, <<>>, 0, FALSE,
                       << <<"grnvs_get_hwaddr", sock[h].fd>> >>, p, NoRet)
    /\ UNCHANGED <<sock, openFds, closeCalls>>

\* Socket::get_ipaddr(&self)
GetIpaddr(h) ==
    /\ prog = "running"
    /\ Live(h)
    /\ last' = Op("get_ipaddr", h, <<>>, 0, FALSE,
                  << <<"grnvs_get_ipaddr", sock[h].fd>> >>, 0, NoRet)
    /\ UNCHANGED <<prog, sock, openFds, closeCalls>>

\* Socket::get_ip6addr(&self)
GetIp6addr(h) ==
    /\ prog = "running"
    /\ Live(h)
    /\ last' = Op("get_ip6addr", h, <<>>, 0, FALSE,
                  << <<"grnvs_get_ip6addr", sock[h].fd>> >>, 0, NoRet)
    /\ UNCHANGED <<prog, sock, openFds, closeCalls>>

\* the owner's scope ends normally: Drop runs
ScopeEnd(h) ==
    /\ prog = "running"
    /\ Live(h)
    /\ Drop(h, "scope")
    /\ last' = DropOp(h)
    /\ UNCHANGED prog

\* the owner returns early after Socket::write gave Err: Drop runs
EarlyReturn(h) ==
    /\ prog = "running"
    /\ Live(h)
    /\ last.op = "write" /\ ~last.ret.ok
    /\ Drop(h, "early")
    /\ last' = DropOp(h)
    /\ UNCHANGED prog

\* a panic unwinds the owner's frame: Drop runs
Unwind(h) ==
    /\ prog = "panicked"
    /\ Live(h)
    /\ Drop(h, "unwind")
    /\ last' = DropOp(h)
    /\ UNCHANGED prog

\* variant: the length test is off by one (>= for >)
PrintHexdumpToStderrOffByOne(len) ==
    /\ prog = "running"
    /\ IF len >= MaxHexdumpLen
       THEN /\ prog' = "exited"
            /\ last' = Op("print_hexdump_to_stderr", 0, <<>>, len, FALSE, <<>>, 0, NoRet)
       ELSE /\ prog' = prog
            /\ last' = Op("print_hexdump_to_stderr", 0, <<>>, len, FALSE,
                          << <<"hexdump", len>> >>, 0, NoRet)
    /\ UNCHANGED <<sock, openFds, closeCalls>>

\* print_hexdump_to_stderr(data), len = data.len()
PrintHexdumpToStderr(len) ==
    /\ prog = "running"
    /\ IF len > MaxHexdumpLen
       THEN \* eprintln!, std::process::exit(1): no destructor runs
            /\ prog' = "exited"
            /\ last' = Op("print_hexdump_to_stderr", 0, <<>>, len, FALSE, <<>>, 0, NoRet)
       ELSE /\ prog' = prog
            /\ last' = Op("print_hexdump_to_stderr", 0, <<>>, len, FALSE,
                          << <<"hexdump", len>> >>, 0, NoRet)
    /\ UNCHANGED <<sock, openFds, closeCalls>>

\* hexdump_to_string(data), len = data.len()
HexdumpToString(len) ==
    /\ prog = "running"
    /\ IF len > MaxHexdumpLen
       THEN /\ prog' = "exited"
            /\ last' = Op("hexdump_to_string", 0, <<>>, len, FALSE, <<>>, 0, NoRet)
       ELSE /\ prog' = prog
            /\ last' = Op("hexdump_to_string", 0, <<>>, len, FALSE,
                          << <<"hexdump_str", len>> >>, 0, NoRet)
    /\ UNCHANGED <<sock, openFds, closeCalls>>

Next ==
    \/ \E name \in Names, layer \in Layers : SocketOpen(name, layer)
    \/ \E h \in Handles, len \in BufLens, tmo \in BOOLEAN : SocketRead(h, len, tmo)
    \/ \E h \in Handles, len \in BufLens : SocketWrite(h, len)
    \/ \E h \in Handles : SocketClose(h)
    \/ \E h \in Handles : GetHwaddr(h)
    \/ \E h \in Handles : GetIpaddr(h)
    \/ \E h \in Handles : GetIp6addr(h)
    \/ \E h \in Handles : ScopeEnd(h)
    \/ \E h \in Handles : EarlyReturn(h)
    \/ \E h \in Handles : Unwind(h)
    \/ \E len \in HexLens : PrintHexdumpToStderr(len)
    \/ \E len \in HexLens : HexdumpToString(len)

Spec == Init /\ [][Next]_vars

\* ================================================================ claims

\* the usize whose value is the small natural number n
SmallUsize(n) == [i \in 1..NumLimbs |-> IF i = NumLimbs THEN n ELSE 0]

\* a <= b for two usize values (limbs compared from the most significant)
UsizeLeq(a, b) ==
    \/ a = b
    \/ \E i \in 1..NumLimbs : a[i] < b[i] /\ \A j \in 1..(i - 1) : a[j] = b[j]

NulIn(name) == \E i \in 1..Len(name) : name[i] = 0
HexdumpOps == {"print_hexdump_to_stderr", "hexdump_to_string"}
HexdumpFn(op) == IF op = "print_hexdump_to_stderr" THEN "hexdump" ELSE "hexdump_str"

\* C1: a Socket ended by an explicit close() (which includes the Drop that
\* runs when close returns) has had grnvs_close called for it exactly once.
C1_CloseThenDropClosesOnce ==
    \A h \in Handles :
        (sock[h].st = "released" /\ sock[h].via = "close") => closeCalls[h] = 1
C1_Witness ==
    \E h \in Handles :
        /\ sock[h].st = "released" /\ sock[h].via = "close"
        /\ last.op = "close" /\ last.h = h

\* C2: a failed grnvs_open (negative result) is surfaced as an error and no
\* live Socket holds a negative identifier.
C2_OpenFailureIsChecked ==
    /\ \A h \in Handles : Live(h) => sock[h].fd >= 0
    /\ (last.op = "open" /\ last.calls # <<>> /\ last.raw < 0) => ~last.ret.ok

\* C3: the count Socket::read returns is between 0 and destination.len(),
\* whatever grnvs_read answered.
C3_ReadCountWithinBuffer ==
    last.op = "read" =>
        /\ UsizeLeq(SmallUsize(0), last.ret.val)
        /\ UsizeLeq(last.ret.val, SmallUsize(last.len))

\* C4: Socket::write gives Err exactly when grnvs_write answered a negative
\* value, and otherwise Ok(n) with n that answer and n <= source.len().
C4_WriteErrIffNegative ==
    last.op = "write" =>
        /\ (~last.ret.ok) <=> (last.raw < 0)
        /\ last.raw >= 0 =>
             /\ last.ret.val = SmallUsize(last.raw)
             /\ UsizeLeq(last.ret.val, SmallUsize(last.len))
C4_Witness ==
    /\ last.op = "write"
    /\ last.raw < 0
    /\ ~last.ret.ok

\* C5: no two live Sockets hold the same identifier.
C5_OneOwnerPerIdentifier ==
    \A g, h \in Handles :
        (g # h /\ Live(g) /\ Live(h)) => sock[g].fd # sock[h].fd

\* C6: grnvs_close has been called exactly once for every Socket whose
\* lifetime has ended, by whichever path, and not at all for one still alive.
C6_ReleasedExactlyOnce ==
    \A h \in Handles :
        /\ sock[h].st = "released" => closeCalls[h] = 1
        /\ sock[h].st # "released" => closeCalls[h] = 0
C6_Witness ==
    \E g, h \in Handles :
        /\ sock[g].st = "released" /\ sock[g].via = "early"
        /\ sock[h].st = "released" /\ sock[h].via = "scope"

\* C7: once grnvs_close has been called for a Socket, no step performs a
\* further operation (read, write, address query, close, drop) on it.
C7_ClosedIsTerminal ==
    [][\A h \in Handles :
         closeCalls[h] > 0 =>
            /\ closeCalls'[h] = closeCalls[h]
            /\ sock'[h] = sock[h]
            /\ last' # last => last'.h # h]_vars
C7_Witness ==
    \E h \in Handles :
        /\ closeCalls[h] = 1
        /\ last.op \in {"read", "write", "get_hwaddr", "get_ipaddr", "get_ip6addr"}
        /\ last.h # h

\* C8: Socket::open with a name holding a NUL byte fails (panics) without
\* any external call, creates no Socket and changes no library state.
C8_NulNameFailsBeforeBoundary ==
    [][(prog = "running" /\ last'.op = "open" /\ NulIn(last'.name)) =>
          /\ prog' = "panicked"
          /\ last'.calls = <<>>
          /\ sock' = sock
          /\ openFds' = openFds
          /\ closeCalls' = closeCalls]_vars
C8_Witness ==
    /\ prog = "panicked"
    /\ last.op = "open"
    /\ NulIn(last.name)
    /\ \E h \in Handles : Live(h)

\* C9: a hexdump wrapper given more than 17760 bytes exits the process
\* without an external call; given at most 17760 bytes it does not exit and
\* makes exactly one external call, with the full length.
C9_HexdumpLengthLimit ==
    last.op \in HexdumpOps =>
        IF last.len > MaxHexdumpLen
        THEN prog = "exited" /\ last.calls = <<>>
        ELSE prog = "running" /\ last.calls = << <<HexdumpFn(last.op), last.len>> >>
C9_Witness ==
    /\ last.op = "print_hexdump_to_stderr"
    /\ last.len = MaxHexdumpLen
    /\ prog = "running"
    /\ last.calls = << <<"hexdump", MaxHexdumpLen>> >>

\* C10: Socket::read with a zero-length destination returns 0.
C10_ZeroLengthReadReturnsZero ==
    (last.op = "read" /\ last.len = 0) => last.ret.val = SmallUsize(0)

====
